---- MODULE Spec2Model ----
(***************************************************************************)
(* A model of the two notebooks of the repository:                         *)
(*                                                                         *)
(*   src/test_2b.ipynb                 the FID script: six arrays, the     *)
(*                                     function calculate_fid, two calls,  *)
(*                                     three prints;                       *)
(*   src/recitations/Week2-training.ipynb                                  *)
(*                                     the setup cell, the manual SGD step *)
(*                                     cell, train_epoch and train.        *)
(*                                                                         *)
(* Floating point numbers are modelled as fixed point numbers with six     *)
(* decimals: the integer v stands for v / Unit.  A product of two floats   *)
(* is rounded down to that grid.  Library routines (numpy, scipy, torch)   *)
(* are modelled by what their documentation says they compute.             *)
(***************************************************************************)
EXTENDS Integers, Sequences, FiniteSets, TLC

VARIABLES
    \* ---- test_2b.ipynb
    pc,           \* position of the script
    mu_real, sigma_real, mu1, sigma1, mu2, sigma2,   \* the six arrays
    fid1, fid2,   \* the two scores (NoValue before they are assigned)
    covmean,      \* the local covmean of the last calculate_fid call
    stdout,       \* the lines printed so far
    exc,          \* the exception that ended the script (NoException if none)
    \* ---- recitations/Week2-training.ipynb
    nbpc,         \* position of the notebook
    magicTries,   \* how often %matplotlib widget was run
    raised,       \* every exception raised so far, in order
    handled,      \* those of them an except clause caught
    nbexc,        \* the exception that ended the run (NoException if none)
    dataset_len,  \* len(train_data)
    train_loader, \* the DataLoader: its batch_size and drop_last
    weight, grad, \* model[1].weight and its .grad, with the batches it stems from
    training,     \* model.training
    optimizer,    \* the options of the optimizer
    remaining,    \* indices the loader has not yielded yet in this pass
    batch,        \* indices of the samples of the current batch
    fed,          \* per sample, how often this pass fed it to the model
    loss,         \* the loss of the current batch
    pbar,         \* the postfix of the progress bar
    fn,           \* the function being executed
    modeSet,      \* model.train() was called during this call
    ops,          \* the operations done on the current batch, in order
    lastApplied,  \* the batches whose gradients the last step applied
    optSteps,     \* how often this call called optimizer.step
    ret,          \* the last return: the function and the type of the value
    epoch, n_epochs, running_avg_train_loss, lr_scheduler,
    schedSteps,   \* how often this call of train called lr_scheduler.step
    schedArg,     \* the arguments of the last such call
    w_before, w_before_grad, w_after,
    nbout,        \* the lines the notebook printed
    viz           \* the ImageDataViz object: slider, figure, registered callbacks

scriptVars == <<pc, mu_real, sigma_real, mu1, sigma1, mu2, sigma2,
                fid1, fid2, covmean, stdout, exc>>

setupVars == <<magicTries>>
excVars == <<raised, handled, nbexc>>
dataVars == <<dataset_len, train_loader>>
modelVars == <<weight, grad, training, optimizer>>
iterVars == <<remaining, batch, fed, loss, pbar>>
callVars == <<fn, modeSet, ops, lastApplied, optSteps, ret>>
trainVars == <<epoch, n_epochs, running_avg_train_loss, lr_scheduler, schedSteps,
              schedArg>>
cellVars == <<w_before, w_before_grad, w_after, nbout>>
vizVars == <<viz>>

nbVars == <<nbpc, setupVars, excVars, dataVars, modelVars, iterVars, callVars,
            trainVars, cellVars, vizVars>>

vars == <<scriptVars, nbVars>>


NoValue == "NoValue"
NoException == [type |-> "none", at |-> "none"]

-----------------------------------------------------------------------------
(* Fixed point arithmetic.  TLC's integers are 32 bit, so a product is      *)
(* formed from the two halves of each factor.                               *)

\* A float v / Unit: Unit = UnitHalf * UnitHalf = 10^6.
UnitHalf == 10 ^ 3
Unit == UnitHalf * UnitHalf

\* sqrtm works with two more decimals: Work = WorkHalf * WorkHalf = 10^8.
WorkHalf == 10 ^ 4
Work == WorkHalf * WorkHalf

\* floor(a * b / (h * h)), without forming a * b.
FxMul(a, b, h) ==
    LET a1 == a \div h
        a0 == a % h
        b1 == b \div h
        b0 == b % h
    IN  a1 * b1 + ((a1 * b0 + a0 * b1) + ((a0 * b0) \div h)) \div h

\* The product of two floats.
FlMul(a, b) == FxMul(a, b, UnitHalf)

\* The tuple <<f[1], ..., f[n]>>, every element evaluated once.
RECURSIVE SeqOf(_, _)
SeqOf(f, n) == IF n = 0 THEN <<>> ELSE Append(SeqOf(f, n - 1), f[n])

RECURSIVE SumSeq(_)
SumSeq(s) == IF s = <<>> THEN 0 ELSE s[1] + SumSeq(Tail(s))

\* A vector is a tuple of floats, a matrix a tuple of rows.
Vec(f, n) == SeqOf(f, n)
Mat(f, n, m) == SeqOf([i \in 1..n |-> SeqOf(f[i], m)], n)

Rows(A) == Len(A)
Cols(A) == IF A = <<>> THEN 0 ELSE Len(A[1])

\* numpy: a - b on two vectors of one shape.
VecSub(a, b) == Vec([i \in 1..Len(a) |-> a[i] - b[i]], Len(a))

\* (mutant) the squares forgotten: np.sum(d).
SumNoSquares(d) == SumSeq(d)

\* numpy: np.sum(d ** 2).
SumSquares(d) == SumSeq(Vec([i \in 1..Len(d) |-> FlMul(d[i], d[i])], Len(d)))

\* numpy: A @ B, entries multiplied with half scale h.
MatMulAt(A, B, h) ==
    Mat([i \in 1..Rows(A) |-> [j \in 1..Cols(B) |->
           SumSeq(Vec([k \in 1..Cols(A) |-> FxMul(A[i][k], B[k][j], h)], Cols(A)))]],
        Rows(A), Cols(B))

MatMul(A, B) == MatMulAt(A, B, UnitHalf)

\* numpy: A + B, A - B, c * A (c an integer), np.trace(A).
MatAdd(A, B) ==
    Mat([i \in 1..Rows(A) |-> [j \in 1..Cols(A) |-> A[i][j] + B[i][j]]], Rows(A), Cols(A))
MatSub(A, B) ==
    Mat([i \in 1..Rows(A) |-> [j \in 1..Cols(A) |-> A[i][j] - B[i][j]]], Rows(A), Cols(A))
MatScale(c, A) ==
    Mat([i \in 1..Rows(A) |-> [j \in 1..Cols(A) |-> c * A[i][j]]], Rows(A), Cols(A))
MatHalf(A) ==
    Mat([i \in 1..Rows(A) |-> [j \in 1..Cols(A) |-> A[i][j] \div 2]], Rows(A), Cols(A))
Trace(A) == SumSeq(Vec([i \in 1..Rows(A) |-> A[i][i]], Rows(A)))
Eye(n, one) == Mat([i \in 1..n |-> [j \in 1..n |-> IF i = j THEN one ELSE 0]], n, n)

-----------------------------------------------------------------------------
(* scipy.linalg.sqrtm: the principal square root of a square matrix.  The   *)
(* library computes it by a Schur decomposition; the model computes the     *)
(* same matrix by the coupled Newton-Schulz iteration                       *)
(*     Y' = Y (3 I - Z Y) / 2,   Z' = (3 I - Z Y) Z / 2,                    *)
(* started at Y = 4 M, Z = I, which converges to Y = 2 sqrt(M) when the     *)
(* eigenvalues of 4 M lie in (0, 3), in Work precision, and rounds the      *)
(* result to the float grid.  It stops early at a fixed point.              *)

SqrtmIters == 12

RECURSIVE NewtonSchulz(_, _, _)
NewtonSchulz(Y, Z, k) ==
    IF k = 0 THEN Y
    ELSE LET T == MatSub(Eye(Rows(Y), 3 * Work), MatMulAt(Z, Y, WorkHalf))
             Y2 == MatHalf(MatMulAt(Y, T, WorkHalf))
             Z2 == MatHalf(MatMulAt(T, Z, WorkHalf))
         IN  IF Y2 = Y /\ Z2 = Z THEN Y ELSE NewtonSchulz(Y2, Z2, k - 1)

sqrtm(M) ==
    LET n == Rows(M)
        up == Work \div Unit
        Y == NewtonSchulz(MatScale(4 * up, M), Eye(n, Work), SqrtmIters)
    IN  Mat([i \in 1..n |-> [j \in 1..n |-> (Y[i][j] + up) \div (2 * up)]], n, n)

-----------------------------------------------------------------------------
(* test_2b.ipynb                                                            *)

\* (mutant) the matrix square root forgotten.
CovMeanNoSqrt(real_sigma, x_sigma) == MatMul(real_sigma, x_sigma)

\* calculate_fid's local covmean.
CovMean(real_sigma, x_sigma) == sqrtm(MatMul(real_sigma, x_sigma))

\* (mutant) the factor 2 of the cross term forgotten.
FidFromNoDouble(real_mu, real_sigma, x_mu, x_sigma, cm) ==
    SumSquares(VecSub(real_mu, x_mu)) + Trace(MatSub(MatAdd(real_sigma, x_sigma), cm))

\* fid = mean_diff + np.trace(real_sigma + x_sigma - 2 * covmean), given covmean.
FidFrom(real_mu, real_sigma, x_mu, x_sigma, cm) ==
    LET diff == VecSub(real_mu, x_mu)
        mean_diff == SumSquares(diff)
    IN  mean_diff + Trace(MatSub(MatAdd(real_sigma, x_sigma), MatScale(2, cm)))

\* (mutant) diff computed in place: real_mu -= x_mu.
ArgsAfterInPlaceDiff(real_mu, real_sigma, x_mu, x_sigma) ==
    <<VecSub(real_mu, x_mu), real_sigma, x_mu, x_sigma>>

\* The four argument arrays when calculate_fid returns: -, **, @, + and sqrtm
\* all build new arrays, and no statement of the body assigns into an argument.
ArgsAfter(real_mu, real_sigma, x_mu, x_sigma) ==
    <<real_mu, real_sigma, x_mu, x_sigma>>

\* A call of calculate_fid: its local covmean, the value it returns and the
\* argument arrays as it leaves them.
calculate_fid(real_mu, real_sigma, x_mu, x_sigma) ==
    LET cm == CovMean(real_sigma, x_sigma)
    IN  [covmean |-> cm,
         fid |-> FidFrom(real_mu, real_sigma, x_mu, x_sigma, cm),
         args |-> ArgsAfter(real_mu, real_sigma, x_mu, x_sigma)]

\* The shapes numpy accepts in calculate_fid: real_mu - x_mu, real_sigma @ x_sigma,
\* sqrtm of a square matrix, real_sigma + x_sigma - 2 * covmean.
ShapesOk(real_mu, real_sigma, x_mu, x_sigma) ==
    /\ Len(real_mu) = Len(x_mu)
    /\ Cols(real_sigma) = Rows(x_sigma)
    /\ Rows(real_sigma) = Cols(x_sigma)
    /\ Rows(real_sigma) = Rows(x_sigma)
    /\ Cols(real_sigma) = Cols(x_sigma)

\* The literal arrays of the script, in hundredths, scaled to floats.
Hundredth == Unit \div 100
Lit(v) == Vec([i \in 1..Len(v) |-> Hundredth * v[i]], Len(v))
LitMat(A) == Mat([i \in 1..Rows(A) |-> [j \in 1..Cols(A) |-> Hundredth * A[i][j]]],
                 Rows(A), Cols(A))

MuRealLit == Lit(<<50, 20, 70, 40>>)
SigmaRealLit == LitMat(<< <<20, 10, 5, 2>>,
                          <<10, 30, 10, 5>>,
                          <<5, 10, 40, 10>>,
                          <<2, 5, 10, 20>> >>)
Mu1Lit == Lit(<<40, 30, 50, 60>>)
Sigma1Lit == LitMat(<< <<70, 10, 5, 2>>,
                       <<10, 20, 10, 5>>,
                       <<5, 10, 30, 10>>,
                       <<2, 5, 10, 15>> >>)
Mu2Lit == Lit(<<70, 10, 30, 50>>)
\* (mutant) sigma2 with one of its two 0.05 at [0][1], [1][0] mistyped as 0.5.
Sigma2LitMistyped == LitMat(<< <<40, 50, 5, 1>>,
                               <<5, 30, 10, 5>>,
                               <<5, 10, 20, 5>>,
                               <<1, 5, 5, 20>> >>)
Sigma2Lit == LitMat(<< <<40, 5, 5, 1>>,
                       <<5, 30, 10, 5>>,
                       <<5, 10, 20, 5>>,
                       <<1, 5, 5, 20>> >>)

\* (mutant) the fifth decimal cut off instead of rounded.
Round4Truncate(v) == IF v >= 0 THEN v \div 100 ELSE -((-v) \div 100)

\* f"{v:.4f}": v rounded to four decimals, sign, integer part, four digits.
Round4(v) == IF v >= 0 THEN (v + 50) \div 100 ELSE -(((-v) + 50) \div 100)
Format4f(v) ==
    LET q == Round4(v)
        a == IF q < 0 THEN -q ELSE q
        d == a % 10000
    IN  (IF v < 0 THEN "-" ELSE "") \o ToString(a \div 10000) \o "."
        \o ToString(d \div 1000) \o ToString((d \div 100) % 10)
        \o ToString((d \div 10) % 10) \o ToString(d % 10)

\* (mutant) a tie goes to Set I.
BetterOrEqual(f1, f2) == IF f1 <= f2 THEN "Set I" ELSE "Set II"

\* better = "Set I" if fid1 < fid2 else "Set II"
Better(f1, f2) == IF f1 < f2 THEN "Set I" ELSE "Set II"

print(line) == stdout' = Append(stdout, line)

\* The distributions the arrays are drawn from: the three literal ones of the
\* script and every two-dimensional (mean, covariance) pair with variances in
\* 0.2 .. MaxVar / 10 (the first at most the second), covariance 0 or 0.1 and
\* one of two means.
MaxVar == 3

Mus2 == {Lit(<<10, 20>>), Lit(<<30, 10>>)}
VarPairs == {p \in (2..MaxVar) \X (2..MaxVar) : p[1] <= p[2]}
Sigmas2 == {LitMat(<< <<10 * p[1], 10 * b>>, <<10 * b, 10 * p[2]>> >>) :
               p \in VarPairs, b \in 0..1}
Literals == {[mu |-> MuRealLit, sigma |-> SigmaRealLit],
             [mu |-> Mu1Lit, sigma |-> Sigma1Lit],
             [mu |-> Mu2Lit, sigma |-> Sigma2Lit]}
Dists == Literals \cup [mu : Mus2, sigma : Sigmas2]

\* The real and the first fake distribution are any two of Dists; the second
\* fake one is a literal one or repeats one of the other two.

InitScript ==
    /\ pc = "fid1"
    /\ \E r \in Dists, x1 \in Dists : \E x2 \in Literals \cup {r, x1} :
          /\ mu_real = r.mu /\ sigma_real = r.sigma
          /\ mu1 = x1.mu /\ sigma1 = x1.sigma
          /\ mu2 = x2.mu /\ sigma2 = x2.sigma
    /\ fid1 = NoValue
    /\ fid2 = NoValue
    /\ covmean = NoValue
    /\ stdout = <<>>
    /\ exc = NoException

arrays == <<mu_real, sigma_real, mu1, sigma1, mu2, sigma2>>

\* fid1 = calculate_fid(mu_real, sigma_real, mu1, sigma1)
CalcFid1 ==
    /\ pc = "fid1"
    /\ IF ShapesOk(mu_real, sigma_real, mu1, sigma1)
       THEN LET r == calculate_fid(mu_real, sigma_real, mu1, sigma1)
            IN  /\ covmean' = r.covmean
                /\ fid1' = r.fid
                /\ mu_real' = r.args[1]
                /\ sigma_real' = r.args[2]
                /\ mu1' = r.args[3]
                /\ sigma1' = r.args[4]
            /\ pc' = "fid2"
            /\ exc' = exc
       ELSE /\ pc' = "raised"
            /\ exc' = [type |-> "ValueError", at |-> "fid1"]
            /\ UNCHANGED <<covmean, fid1, mu_real, sigma_real, mu1, sigma1>>
    /\ UNCHANGED <<mu2, sigma2, fid2, stdout>>
    /\ UNCHANGED nbVars

\* fid2 = calculate_fid(mu_real, sigma_real, mu2, sigma2)
CalcFid2 ==
    /\ pc = "fid2"
    /\ IF ShapesOk(mu_real, sigma_real, mu2, sigma2)
       THEN LET r == calculate_fid(mu_real, sigma_real, mu2, sigma2)
            IN  /\ covmean' = r.covmean
                /\ fid2' = r.fid
                /\ mu_real' = r.args[1]
                /\ sigma_real' = r.args[2]
                /\ mu2' = r.args[3]
                /\ sigma2' = r.args[4]
            /\ pc' = "print1"
            /\ exc' = exc
       ELSE /\ pc' = "raised"
            /\ exc' = [type |-> "ValueError", at |-> "fid2"]
            /\ UNCHANGED <<covmean, fid2, mu_real, sigma_real, mu2, sigma2>>
    /\ UNCHANGED <<mu1, sigma1, fid1, stdout>>
    /\ UNCHANGED nbVars

\* print(f"FID between Real and Fake Set I: {fid1:.4f}")
PrintFid1 ==
    /\ pc = "print1"
    /\ print("FID between Real and Fake Set I: " \o Format4f(fid1))
    /\ pc' = "print2"
    /\ UNCHANGED <<arrays, fid1, fid2, covmean, exc>>
    /\ UNCHANGED nbVars

\* print(f"FID between Real and Fake Set II: {fid2:.4f}")
PrintFid2 ==
    /\ pc = "print2"
    /\ print("FID between Real and Fake Set II: " \o Format4f(fid2))
    /\ pc' = "better"
    /\ UNCHANGED <<arrays, fid1, fid2, covmean, exc>>
    /\ UNCHANGED nbVars

\* better = ...; print(f"\nBased on FID score, Fake Image {better} is better")
PrintBetter ==
    /\ pc = "better"
    /\ stdout' = stdout \o <<"", "Based on FID score, Fake Image "
                                  \o Better(fid1, fid2) \o " is better">>
    /\ pc' = "done"
    /\ UNCHANGED <<arrays, fid1, fid2, covmean, exc>>
    /\ UNCHANGED nbVars

NextScript ==
    \/ CalcFid1
    \/ CalcFid2
    \/ PrintFid1
    \/ PrintFid2
    \/ PrintBetter

-----------------------------------------------------------------------------
(* recitations/Week2-training.ipynb                                         *)
(*                                                                          *)
(* The model holds one trainable parameter, model[1].weight, as one float.  *)
(* The loss of a batch and the gradient its backward pass yields are any    *)
(* of Losses, whatever the weight and the batch.  A batch is the            *)
(* set of the indices of its samples; the shuffling sampler hands out any   *)
(* batch_size indices it has not handed out in this pass.  The cells run    *)
(* top to bottom, once each; an exception that leaves a cell ends the run.  *)
(* The cells that only inspect the data or show one forward or backward     *)
(* pass build a model that the next cell replaces; they are left out.       *)

\* lr = 0.001 of optim.SGD, and the literal 0.001 of the manual step.
lr_sgd == 1000
manual_lr == 1000
\* batch_size = 8 of the train_loader of the training cells.
batch_size_nb == 8

\* Bounds: datasets of 1 .. MaxData samples with batch sizes 1 .. MaxBatch, next to
\* datasets of batch_size and batch_size + 1 samples with the batch size of the
\* notebook; at most MaxEpochs epochs per call of train.
MaxData == 2
MaxBatch == 2
MaxEpochs == 2
\* The slider is moved to the positions 0 .. MaxSlider.
MaxSlider == 1

DataSizes == (1..MaxData) \cup {batch_size_nb, batch_size_nb + 1}
BatchSizesFor(len) == IF len <= MaxData THEN 1..MaxBatch ELSE {batch_size_nb}

InitWeights == {50000}
\* The losses a batch can have: loss.item() and the gradient of the weight that
\* the graph of the loss yields.
Losses == {[item |-> 500000, grad |-> -300000], [item |-> 2000000, grad |-> 200000]}
NoLoss == [item |-> 0, grad |-> 0]
Schedulers == {"ReduceLROnPlateau", "StepLR", "None"}

NoGrad == [val |-> <<>>, of |-> <<>>]
NoLoader == [batch_size |-> 0, drop_last |-> FALSE]
NoOptimizer == [lr |-> 0, momentum |-> 0, weight_decay |-> 0]
NoReturn == [fn |-> "none", type |-> "none"]
NoViz == [callbacks |-> <<>>, index |-> 0, img |-> <<>>, title |-> <<>>]

InitNotebook ==
    /\ nbpc = "import_colab"
    /\ magicTries = 0
    /\ raised = <<>> /\ handled = <<>> /\ nbexc = NoException
    /\ dataset_len = 0 /\ train_loader = NoLoader
    /\ weight = 0 /\ grad = NoGrad /\ training = TRUE /\ optimizer = NoOptimizer
    /\ remaining = {} /\ batch = {} /\ fed = <<>> /\ loss = NoLoss /\ pbar = ""
    /\ fn = "none" /\ modeSet = FALSE /\ ops = <<>> /\ lastApplied = <<>>
    /\ optSteps = 0
    /\ ret = NoReturn
    /\ epoch = 0 /\ n_epochs = 0 /\ running_avg_train_loss = 0
    /\ lr_scheduler = "None" /\ schedSteps = 0 /\ schedArg = <<>>
    /\ w_before = 0 /\ w_before_grad = 0 /\ w_after = 0 /\ nbout = <<>>
    /\ viz = NoViz

\* An exception leaves the cell: nothing catches it.
Raise(type, at) ==
    /\ raised' = Append(raised, [type |-> type, at |-> at])
    /\ nbexc' = [type |-> type, at |-> at]
    /\ handled' = handled
    /\ nbpc' = "raised"

\* An except clause catches the exception and the cell goes on at next.
Catch(type, at, next) ==
    /\ raised' = Append(raised, [type |-> type, at |-> at])
    /\ handled' = Append(handled, [type |-> type, at |-> at])
    /\ nbexc' = nbexc
    /\ nbpc' = next

\* (mutant) a bare except around the colab import.
ColabCatchesAll(type) == TRUE

\* except ImportError: pass
ColabCatches(type) == type = "ImportError"

\* try: from google.colab import output; output.enable_custom_widget_manager()
ImportColab ==
    /\ nbpc = "import_colab"
    /\ \/ /\ nbpc' = "magic"
          /\ UNCHANGED excVars
       \/ \E type \in {"ImportError", "RuntimeError"} :
             IF ColabCatches(type)
             THEN Catch(type, "import_colab", "magic")
             ELSE Raise(type, "import_colab")
    /\ UNCHANGED <<setupVars, dataVars, modelVars, iterVars, callVars, trainVars, cellVars>>
    /\ UNCHANGED <<scriptVars, vizVars>>

\* try: %matplotlib widget / except: (a bare except catches everything)
Magic ==
    /\ nbpc = "magic"
    /\ magicTries' = magicTries + 1
    /\ \/ /\ nbpc' = "imports"
          /\ UNCHANGED excVars
       \/ \E type \in {"ModuleNotFoundError"} :
             Catch(type, "magic", "pip_install")
    /\ UNCHANGED <<dataVars, modelVars, iterVars, callVars, trainVars, cellVars>>
    /\ UNCHANGED <<scriptVars, vizVars>>

\* os.system('pip install ipympl -qq'): the exit status is dropped.
PipInstall ==
    /\ nbpc = "pip_install"
    /\ nbpc' = "magic_retry"
    /\ UNCHANGED <<setupVars, excVars, dataVars, modelVars, iterVars, callVars,
                   trainVars, cellVars>>
    /\ UNCHANGED <<scriptVars, vizVars>>

\* %matplotlib widget, in the except clause: a second failure leaves the cell.
MagicRetry ==
    /\ nbpc = "magic_retry"
    /\ magicTries' = magicTries + 1
    /\ \/ /\ nbpc' = "imports"
          /\ UNCHANGED excVars
       \/ \E type \in {"ModuleNotFoundError"} :
             Raise(type, "magic_retry")
    /\ UNCHANGED <<dataVars, modelVars, iterVars, callVars, trainVars, cellVars>>
    /\ UNCHANGED <<scriptVars, vizVars>>

\* from tqdm import tqdm; import torch; ... (outside any try)
Imports ==
    /\ nbpc = "imports"
    /\ \/ /\ nbpc' = "load_data"
          /\ UNCHANGED excVars
       \/ Raise("ModuleNotFoundError", "imports")
    /\ UNCHANGED <<setupVars, dataVars, modelVars, iterVars, callVars, trainVars, cellVars>>
    /\ UNCHANGED <<scriptVars, vizVars>>

\* train_data = datasets.USPS(..., download = True)
LoadData ==
    /\ nbpc = "load_data"
    /\ \/ /\ \E len \in DataSizes : dataset_len' = len
          /\ nbpc' = "viz"
          /\ UNCHANGED excVars
       \/ /\ Raise("URLError", "load_data")
          /\ dataset_len' = dataset_len
    /\ UNCHANGED <<setupVars, train_loader, modelVars, iterVars, callVars, trainVars,
                   cellVars>>
    /\ UNCHANGED <<scriptVars, vizVars>>

\* (mutant) an update that leaves the image alone.
update_title_only(v, index) == [v EXCEPT !.title = <<index>>]

\* ImageDataViz.update: x, y = self.data[index]; the image shows x, the title y.
update(v, index) == [v EXCEPT !.img = <<index>>, !.title = <<index>>]

\* ImageDataViz.show: the figure shows self.data[0]; widgets.interact registers
\* self.update on the slider and calls it once with the value of the slider.
show(v) ==
    LET shown == [v EXCEPT !.img = <<0>>, !.title = <<0>>]
        registered == [shown EXCEPT !.callbacks = Append(@, "update")]
    IN  update(registered, registered.index)

\* viz = ImageDataViz(train_data): a slider at 0; viz.show()
VizCell ==
    /\ nbpc = "viz"
    /\ viz' = show([NoViz EXCEPT !.index = 0])
    /\ nbpc' = "loader"
    /\ UNCHANGED <<setupVars, excVars, dataVars, modelVars, iterVars, callVars,
                   trainVars, cellVars>>
    /\ UNCHANGED scriptVars

\* The kernel handles a widget event between two cells, never inside one.
CellBoundaries ==
    {"loader", "sgd_cell", "components", "call_train_epoch", "train_cell", "end",
     "raised"}

\* The positions the slider (min = 0, max = n_samples - 1) is moved to.
SliderValues ==
    0..(IF dataset_len - 1 < MaxSlider THEN dataset_len - 1 ELSE MaxSlider)

\* The user moves the slider: the kernel runs the registered self.update.
SliderMove ==
    /\ nbpc \in CellBoundaries
    /\ viz.callbacks # <<>>
    /\ \E v \in SliderValues \ {viz.index} :
          viz' = update([viz EXCEPT !.index = v], v)
    /\ UNCHANGED <<nbpc, setupVars, excVars, dataVars, modelVars, iterVars, callVars,
                   trainVars, cellVars>>
    /\ UNCHANGED scriptVars

\* optim.SGD(model.parameters(), lr = lr): the defaults of the other options.
SGD(lr) == [lr |-> lr, momentum |-> 0, weight_decay |-> 0]

\* A fresh nn.Sequential(nn.Flatten, nn.Linear) and a fresh optimizer.
FreshModel ==
    /\ weight' \in InitWeights
    /\ grad' = NoGrad
    /\ training' = TRUE
    /\ optimizer' = SGD(lr_sgd)

\* DataLoader(train_data, batch_size = b, shuffle = True, drop_last = True)
DataLoader(b) == [batch_size |-> b, drop_last |-> TRUE]

\* The first train_loader of the notebook, built before any model.
BuildLoader ==
    /\ nbpc = "loader"
    /\ \E b \in BatchSizesFor(dataset_len) : train_loader' = DataLoader(b)
    /\ nbpc' = "sgd_cell"
    /\ UNCHANGED <<setupVars, excVars, dataset_len, modelVars, iterVars, callVars, trainVars,
                   cellVars>>
    /\ UNCHANGED <<scriptVars, vizVars>>

\* The components cell: model, train_loader, loss_fn, optimizer.
Components ==
    /\ nbpc = "components"
    /\ \E b \in BatchSizesFor(dataset_len) : train_loader' = DataLoader(b)
    /\ FreshModel
    /\ nbpc' = "call_train_epoch"
    /\ UNCHANGED <<setupVars, excVars, dataset_len, iterVars, callVars, trainVars, cellVars>>
    /\ UNCHANGED <<scriptVars, vizVars>>

\* The batches the loader can yield next, given the indices not yet yielded:
\* any batch_size of them; fewer only as the last batch, unless drop_last.
Batches(rest) ==
    IF Cardinality(rest) >= train_loader.batch_size
    THEN {b \in SUBSET rest : Cardinality(b) = train_loader.batch_size}
    ELSE IF rest # {} /\ ~train_loader.drop_last THEN {rest} ELSE {}

\* (mutant) zero_grad that clears nothing.
zero_grad_noop(g) == g

\* optimizer.zero_grad(): the gradient is dropped.
zero_grad(g) == NoGrad

\* loss.backward(): the gradient gval of batch b is added to .grad.
backward(g, gval, b) ==
    [val |-> IF g.val = <<>> THEN <<gval>> ELSE <<g.val[1] + gval>>,
     of |-> Append(g.of, b)]

\* (mutant) a step up the gradient.
sgd_step_ascent(p, g, opt) ==
    IF g.val = <<>> THEN p ELSE p + FlMul(opt.lr, g.val[1])

\* optimizer.step() of SGD: p <- p - lr * (grad + weight_decay * p), no momentum
\* buffer when momentum = 0; a parameter without gradient is skipped.
sgd_step(p, g, opt) ==
    IF g.val = <<>> THEN p
    ELSE p - FlMul(opt.lr, g.val[1] + FlMul(opt.weight_decay, p))

\* torch.allclose(a, b): |a - b| <= atol + rtol * |b|, rtol = 1e-5, atol = 1e-8.
allclose(a, b) ==
    LET d == IF a < b THEN b - a ELSE a - b
        m == IF b < 0 THEN -b ELSE b
    IN  d <= FlMul(10, m)

\* train_epoch(model, train_loader, loss_fn, optimizer, Device)
CallTrainEpoch ==
    /\ nbpc = "call_train_epoch"
    /\ fn' = "train_epoch"
    /\ modeSet' = FALSE
    /\ ops' = <<>>
    /\ lastApplied' = <<>>
    /\ optSteps' = 0
    /\ ret' = NoReturn
    /\ nbpc' = "model_train"
    /\ UNCHANGED <<setupVars, excVars, dataVars, modelVars, iterVars, trainVars, cellVars>>
    /\ UNCHANGED <<scriptVars, vizVars>>

\* model.train()
ModelTrain ==
    /\ nbpc = "model_train"
    /\ training' = TRUE
    /\ modeSet' = TRUE
    /\ nbpc' = "iter"
    /\ UNCHANGED <<setupVars, excVars, dataVars, weight, grad, optimizer, iterVars,
                   fn, ops, lastApplied, optSteps, ret, trainVars, cellVars>>
    /\ UNCHANGED <<scriptVars, vizVars>>

\* for x, y in ...: the loader starts a new pass over a new shuffle.
IterLoader ==
    /\ nbpc = "iter"
    /\ remaining' = 1..dataset_len
    /\ fed' = [i \in 1..dataset_len |-> 0]
    /\ nbpc' = "next_batch"
    /\ UNCHANGED <<setupVars, excVars, dataVars, modelVars, batch, loss, pbar, callVars,
                   trainVars, cellVars>>
    /\ UNCHANGED <<scriptVars, vizVars>>

\* The loop takes the next batch; x and y are moved to the device.
NextBatch ==
    /\ nbpc = "next_batch"
    /\ \E b \in Batches(remaining) :
          /\ batch' = b
          /\ remaining' = remaining \ b
    /\ ops' = <<>>
    /\ nbpc' = "zero_grad"
    /\ UNCHANGED <<setupVars, excVars, dataVars, modelVars, fed, loss, pbar,
                   fn, modeSet, lastApplied, optSteps, ret, trainVars, cellVars>>
    /\ UNCHANGED <<scriptVars, vizVars>>

\* optimizer.zero_grad()
ZeroGrad ==
    /\ nbpc = "zero_grad"
    /\ grad' = zero_grad(grad)
    /\ ops' = Append(ops, "zero_grad")
    /\ nbpc' = "forward"
    /\ UNCHANGED <<setupVars, excVars, dataVars, weight, training, optimizer, iterVars,
                   fn, modeSet, lastApplied, optSteps, ret, trainVars, cellVars>>
    /\ UNCHANGED <<scriptVars, vizVars>>

\* y_pred = model(x): every sample of the batch is fed to the model; a shape
\* mismatch raises.
Forward ==
    /\ nbpc = "forward"
    /\ \/ /\ fed' = [i \in 1..dataset_len |-> IF i \in batch THEN fed[i] + 1 ELSE fed[i]]
          /\ ops' = Append(ops, "forward")
          /\ nbpc' = "loss"
          /\ UNCHANGED excVars
       \/ /\ Raise("RuntimeError", "forward")
          /\ UNCHANGED <<fed, ops>>
    /\ UNCHANGED <<setupVars, dataVars, modelVars, remaining, batch, loss, pbar,
                   fn, modeSet, lastApplied, optSteps, ret, trainVars, cellVars>>
    /\ UNCHANGED <<scriptVars, vizVars>>

\* loss = loss_fn(y_pred, y)
LossFn ==
    /\ nbpc = "loss"
    /\ loss' \in Losses
    /\ ops' = Append(ops, "loss")
    /\ nbpc' = "backward"
    /\ UNCHANGED <<setupVars, excVars, dataVars, modelVars, remaining, batch, fed, pbar,
                   fn, modeSet, lastApplied, optSteps, ret, trainVars, cellVars>>
    /\ UNCHANGED <<scriptVars, vizVars>>

\* loss.backward()
Backward ==
    /\ nbpc = "backward"
    /\ grad' = backward(grad, loss.grad, batch)
    /\ ops' = Append(ops, "backward")
    /\ nbpc' = "step"
    /\ UNCHANGED <<setupVars, excVars, dataVars, weight, training, optimizer, iterVars,
                   fn, modeSet, lastApplied, optSteps, ret, trainVars, cellVars>>
    /\ UNCHANGED <<scriptVars, vizVars>>

\* optimizer.step()
OptimizerStep ==
    /\ nbpc = "step"
    /\ weight' = sgd_step(weight, grad, optimizer)
    /\ lastApplied' = grad.of
    /\ optSteps' = optSteps + 1
    /\ ops' = Append(ops, "step")
    /\ nbpc' = IF fn = "train_epoch" THEN "postfix" ELSE "accum"
    /\ UNCHANGED <<setupVars, excVars, dataVars, grad, training, optimizer, iterVars,
                   fn, modeSet, ret, trainVars, cellVars>>
    /\ UNCHANGED <<scriptVars, vizVars>>

\* batch_pbar.set_postfix_str(f'loss={loss.item():.4f}')
Postfix ==
    /\ nbpc = "postfix"
    /\ pbar' = "loss=" \o Format4f(loss.item)
    /\ nbpc' = "next_batch"
    /\ UNCHANGED <<setupVars, excVars, dataVars, modelVars, remaining, batch, fed, loss,
                   callVars, trainVars, cellVars>>
    /\ UNCHANGED <<scriptVars, vizVars>>

\* The locals of a call (x, y, loss, the progress bar and the iterator of the
\* loader) end with it.
DropLocals ==
    /\ remaining' = {}
    /\ batch' = {}
    /\ fed' = <<>>
    /\ loss' = NoLoss
    /\ pbar' = ""
    /\ ops' = <<>>

\* train_epoch falls off its end when the loader is exhausted: it returns None.
TrainEpochReturn ==
    /\ nbpc = "next_batch"
    /\ fn = "train_epoch"
    /\ Batches(remaining) = {}
    /\ ret' = [fn |-> "train_epoch", type |-> "NoneType"]
    /\ fn' = "none"
    /\ DropLocals
    /\ nbpc' = "train_cell"
    /\ UNCHANGED <<setupVars, excVars, dataVars, modelVars, modeSet,
                   lastApplied, optSteps, trainVars, cellVars>>
    /\ UNCHANGED <<scriptVars, vizVars>>

\* The training cell: a fresh model, optimizer and scheduler, then
\* train(model, train_loader, loss_fn, optimizer, lr_scheduler, Device, n_epochs).
CallTrain ==
    /\ nbpc = "train_cell"
    /\ FreshModel
    /\ \E e \in 0..MaxEpochs, s \in Schedulers :
          /\ n_epochs' = e
          /\ lr_scheduler' = s
    /\ epoch' = 0
    /\ schedSteps' = 0
    /\ schedArg' = <<>>
    /\ running_avg_train_loss' = 0
    /\ fn' = "train"
    /\ modeSet' = FALSE
    /\ ops' = <<>>
    /\ lastApplied' = <<>>
    /\ optSteps' = 0
    /\ ret' = NoReturn
    /\ nbpc' = "epoch_head"
    /\ UNCHANGED <<setupVars, excVars, dataVars, iterVars, cellVars>>
    /\ UNCHANGED <<scriptVars, vizVars>>

\* for epoch in epoch_pbar: running_avg_train_loss = 0.0
EpochHead ==
    /\ nbpc = "epoch_head"
    /\ epoch < n_epochs
    /\ epoch' = epoch + 1
    /\ running_avg_train_loss' = 0
    /\ nbpc' = "iter"
    /\ UNCHANGED <<setupVars, excVars, dataVars, modelVars, iterVars, callVars,
                   n_epochs, lr_scheduler, schedSteps, schedArg, cellVars>>
    /\ UNCHANGED <<scriptVars, vizVars>>

\* running_avg_train_loss += loss.item() * x.shape[0]
Accumulate ==
    /\ nbpc = "accum"
    /\ running_avg_train_loss' = running_avg_train_loss + loss.item * Cardinality(batch)
    /\ nbpc' = "next_batch"
    /\ UNCHANGED <<setupVars, excVars, dataVars, modelVars, iterVars, callVars,
                   epoch, n_epochs, lr_scheduler, schedSteps, schedArg, cellVars>>
    /\ UNCHANGED <<scriptVars, vizVars>>

\* running_avg_train_loss /= len(train_loader.dataset), once the loader is
\* exhausted.
Average ==
    /\ nbpc = "next_batch"
    /\ fn = "train"
    /\ Batches(remaining) = {}
    /\ running_avg_train_loss' = running_avg_train_loss \div dataset_len
    /\ nbpc' = "sched"
    /\ UNCHANGED <<setupVars, excVars, dataVars, modelVars, iterVars, callVars,
                   epoch, n_epochs, lr_scheduler, schedSteps, schedArg, cellVars>>
    /\ UNCHANGED <<scriptVars, vizVars>>

\* (mutant) every scheduler is handed the loss.
SchedulerCallsAllMetric(s, metric) ==
    IF s # "None" THEN << <<metric>> >> ELSE <<>>

\* The calls of lr_scheduler.step an epoch makes, each as its arguments:
\* if isinstance(lr_scheduler, ReduceLROnPlateau): lr_scheduler.step(running...)
\* elif lr_scheduler is not None: lr_scheduler.step()
SchedulerCalls(s, metric) ==
    IF s = "ReduceLROnPlateau" THEN << <<metric>> >>
    ELSE IF s # "None" THEN << <<>> >>
    ELSE <<>>

SchedulerStep ==
    /\ nbpc = "sched"
    /\ LET stepped == SchedulerCalls(lr_scheduler, running_avg_train_loss)
       IN  /\ schedSteps' = schedSteps + Len(stepped)
           /\ schedArg' = IF stepped = <<>> THEN schedArg ELSE stepped[Len(stepped)]
    /\ nbpc' = "epoch_postfix"
    /\ UNCHANGED <<setupVars, excVars, dataVars, modelVars, iterVars, callVars,
                   epoch, n_epochs, running_avg_train_loss, lr_scheduler, cellVars>>
    /\ UNCHANGED <<scriptVars, vizVars>>

\* epoch_pbar.set_postfix_str(f'running avg train loss = {...:.4f}')
EpochPostfix ==
    /\ nbpc = "epoch_postfix"
    /\ pbar' = "running avg train loss = " \o Format4f(running_avg_train_loss)
    /\ nbpc' = "epoch_head"
    /\ UNCHANGED <<setupVars, excVars, dataVars, modelVars, remaining, batch, fed, loss,
                   callVars, trainVars, cellVars>>
    /\ UNCHANGED <<scriptVars, vizVars>>

\* train returns when range(n_epochs) is exhausted.
TrainReturn ==
    /\ nbpc = "epoch_head"
    /\ epoch >= n_epochs
    /\ ret' = [fn |-> "train", type |-> "NoneType"]
    /\ fn' = "none"
    /\ DropLocals
    /\ epoch' = 0
    /\ running_avg_train_loss' = 0
    /\ nbpc' = "end"
    /\ UNCHANGED <<setupVars, excVars, dataVars, modelVars, modeSet, lastApplied, optSteps,
                   n_epochs, lr_scheduler, schedSteps, schedArg, cellVars>>
    /\ UNCHANGED <<scriptVars, vizVars>>

\* The SGD cell: a fresh model and optimizer.
SgdComponents ==
    /\ nbpc = "sgd_cell"
    /\ FreshModel
    /\ nbpc' = "sgd_batch"
    /\ UNCHANGED <<setupVars, excVars, dataVars, iterVars, fn, modeSet, ops, lastApplied, optSteps,
                   ret, trainVars, cellVars>>
    /\ UNCHANGED <<scriptVars, vizVars>>

\* x, y = next(iter(train_loader)): StopIteration when the loader is empty.
SgdBatch ==
    /\ nbpc = "sgd_batch"
    /\ \/ /\ \E b \in Batches(1..dataset_len) : batch' = b
          /\ nbpc' = "sgd_forward"
          /\ UNCHANGED excVars
       \/ /\ Batches(1..dataset_len) = {}
          /\ Raise("StopIteration", "sgd_batch")
          /\ batch' = batch
    /\ UNCHANGED <<setupVars, dataVars, modelVars, remaining, fed, loss, pbar, callVars,
                   trainVars, cellVars>>
    /\ UNCHANGED <<scriptVars, vizVars>>

\* y_pred = model(x); loss = loss_fn(y_pred, y)
SgdForward ==
    /\ nbpc = "sgd_forward"
    /\ loss' \in Losses
    /\ nbpc' = "sgd_backward"
    /\ UNCHANGED <<setupVars, excVars, dataVars, modelVars, remaining, batch, fed, pbar,
                   callVars, trainVars, cellVars>>
    /\ UNCHANGED <<scriptVars, vizVars>>

\* loss.backward()
SgdBackward ==
    /\ nbpc = "sgd_backward"
    /\ grad' = backward(grad, loss.grad, batch)
    /\ nbpc' = "sgd_manual"
    /\ UNCHANGED <<setupVars, excVars, dataVars, weight, training, optimizer, iterVars,
                   callVars, trainVars, cellVars>>
    /\ UNCHANGED <<scriptVars, vizVars>>

\* w_before, w_before_grad: clones; w_after = w_before - 0.001 * w_before_grad
SgdManual ==
    /\ nbpc = "sgd_manual"
    /\ w_before' = weight
    /\ w_before_grad' = grad.val[1]
    /\ w_after' = weight - FlMul(manual_lr, grad.val[1])
    /\ nbpc' = "sgd_step"
    /\ UNCHANGED <<setupVars, excVars, dataVars, modelVars, iterVars, callVars,
                   trainVars, nbout>>
    /\ UNCHANGED <<scriptVars, vizVars>>

\* optimizer.step()
SgdStep ==
    /\ nbpc = "sgd_step"
    /\ weight' = sgd_step(weight, grad, optimizer)
    /\ nbpc' = "sgd_compare"
    /\ UNCHANGED <<setupVars, excVars, dataVars, grad, training, optimizer, iterVars,
                   callVars, trainVars, cellVars>>
    /\ UNCHANGED <<scriptVars, vizVars>>

\* if torch.allclose(w_after, model[1].weight): print('Both did the same thing!')
\* No later cell reads the x, y and loss of this cell.
SgdCompare ==
    /\ nbpc = "sgd_compare"
    /\ nbout' = IF allclose(w_after, weight)
                THEN Append(nbout, "Both did the same thing!")
                ELSE nbout
    /\ batch' = {}
    /\ loss' = NoLoss
    /\ nbpc' = "components"
    /\ UNCHANGED <<setupVars, excVars, dataVars, modelVars, remaining, fed, pbar,
                   callVars, trainVars, w_before, w_before_grad, w_after>>
    /\ UNCHANGED <<scriptVars, vizVars>>

NextNotebook ==
    \/ ImportColab \/ Magic \/ PipInstall \/ MagicRetry \/ Imports
    \/ LoadData \/ VizCell \/ SliderMove \/ BuildLoader \/ Components
    \/ SgdComponents \/ SgdBatch \/ SgdForward \/ SgdBackward \/ SgdManual
    \/ SgdStep \/ SgdCompare
    \/ CallTrainEpoch \/ ModelTrain \/ IterLoader \/ NextBatch \/ ZeroGrad
    \/ Forward \/ LossFn \/ Backward \/ OptimizerStep \/ Postfix \/ TrainEpochReturn
    \/ CallTrain \/ EpochHead \/ Accumulate \/ Average \/ SchedulerStep
    \/ EpochPostfix \/ TrainReturn

-----------------------------------------------------------------------------
\* The script on any of its inputs; the notebook is not run.
Init == InitScript /\ InitNotebook
Next == NextScript
Spec == Init /\ [][Next]_vars

\* The notebook; the script stands at its start, on its literal arrays.
InitNb ==
    /\ InitScript
    /\ mu_real = MuRealLit /\ sigma_real = SigmaRealLit
    /\ mu1 = Mu1Lit /\ sigma1 = Sigma1Lit
    /\ mu2 = Mu2Lit /\ sigma2 = Sigma2Lit
    /\ InitNotebook
NextNb == NextNotebook
SpecNotebook == InitNb /\ [][NextNb]_vars

-----------------------------------------------------------------------------
(* Claims about test_2b.ipynb, checked under Spec.                          *)

Abs(v) == IF v < 0 THEN -v ELSE v

\* The two assignments have happened.
Fid1Assigned == pc \in {"fid2", "print1", "print2", "better", "done"} \/ exc.at = "fid2"
Fid2Assigned == pc \in {"print1", "print2", "better", "done"}

\* The squared Euclidean distance of two vectors, term by term.
RECURSIVE SqDistFrom(_, _, _)
SqDistFrom(a, b, i) ==
    IF i > Len(a) THEN 0
    ELSE FlMul(a[i] - b[i], a[i] - b[i]) + SqDistFrom(a, b, i + 1)

\* The sum of the diagonal of A + B - 2 X, term by term.
RECURSIVE CrossTraceFrom(_, _, _, _)
CrossTraceFrom(A, B, X, i) ==
    IF i > Rows(A) THEN 0
    ELSE (A[i][i] + B[i][i] - 2 * X[i][i]) + CrossTraceFrom(A, B, X, i + 1)

\* X is a square root of M up to SqrtTol units of the float grid, with the
\* positive trace of the principal one.
SqrtTol == 4
IsSqrtOf(X, M) ==
    /\ Rows(X) = Rows(M) /\ Cols(X) = Cols(M)
    /\ \A i \in 1..Rows(M), j \in 1..Cols(M) : Abs(MatMul(X, X)[i][j] - M[i][j]) <= SqrtTol
    /\ Trace(X) > 0

FidAsSpecified(real_mu, real_sigma, x_mu, x_sigma, f, cm) ==
    /\ IsSqrtOf(cm, MatMul(real_sigma, x_sigma))
    /\ f = SqDistFrom(real_mu, x_mu, 1) + CrossTraceFrom(real_sigma, x_sigma, cm, 1)

\* C1: calculate_fid returns the squared Euclidean distance between the means
\* plus the trace of (real_sigma + x_sigma - 2 * principal square root of
\* real_sigma @ x_sigma), nothing added and nothing removed: right after each
\* of the two calls, the score it returned is that value, with the call's
\* covmean a square root of the product.
C1_FidIsFormula ==
    /\ pc = "fid2" => FidAsSpecified(mu_real, sigma_real, mu1, sigma1, fid1, covmean)
    /\ pc = "print1" => FidAsSpecified(mu_real, sigma_real, mu2, sigma2, fid2, covmean)

C1_Witness ==
    /\ pc = "print1"
    /\ mu_real # mu2 /\ sigma_real # sigma2
    /\ fid2 > 0
    /\ Rows(sigma_real) = 4

IsLiteralInput ==
    /\ mu_real = MuRealLit /\ sigma_real = SigmaRealLit
    /\ mu1 = Mu1Lit /\ sigma1 = Sigma1Lit
    /\ mu2 = Mu2Lit /\ sigma2 = Sigma2Lit

\* C2: with the literal arrays the script computes fid1 < fid2, prints the two
\* scores as 0.2811 and 0.3044 in that order and then the verdict line
\* "Based on FID score, Fake Image Set I is better".
C2_LiteralOutput ==
    IsLiteralInput =>
        /\ Fid2Assigned => fid1 < fid2
        /\ pc # "raised"
        /\ pc = "done" =>
              stdout = <<"FID between Real and Fake Set I: 0.2811",
                         "FID between Real and Fake Set II: 0.3044",
                         "",
                         "Based on FID score, Fake Image Set I is better">>

C2_Witness == IsLiteralInput /\ pc = "done" /\ Len(stdout) = 4

\* C3: calculate_fid returns zero when both input distributions are identical.
C3_ZeroOnIdentical ==
    /\ (Fid1Assigned /\ mu1 = mu_real /\ sigma1 = sigma_real) => fid1 = 0
    /\ (Fid2Assigned /\ mu2 = mu_real /\ sigma2 = sigma_real) => fid2 = 0

C3_Witness ==
    /\ Fid2Assigned /\ mu2 = mu_real /\ sigma2 = sigma_real
    /\ mu1 # mu_real /\ fid1 # 0

Commute(A, B) == MatMul(A, B) = MatMul(B, A)

\* C4: calculate_fid is symmetric under swapping the two input distributions
\* when the covariances commute.
C4_SymmetricWhenCommuting ==
    /\ (Fid1Assigned /\ Commute(sigma_real, sigma1)) =>
           fid1 = calculate_fid(mu1, sigma1, mu_real, sigma_real).fid
    /\ (Fid2Assigned /\ Commute(sigma_real, sigma2)) =>
           fid2 = calculate_fid(mu2, sigma2, mu_real, sigma_real).fid

C4_Witness ==
    /\ Fid1Assigned /\ Commute(sigma_real, sigma1)
    /\ sigma1 # sigma_real /\ mu1 # mu_real
    /\ sigma1[1][2] # 0 /\ sigma_real[1][2] # 0

-----------------------------------------------------------------------------
(* Claims about recitations/Week2-training.ipynb, checked under            *)
(* SpecNotebook.                                                            *)

BatchSteps == <<"zero_grad", "forward", "loss", "backward", "step">>
IsPrefix(s, t) == Len(s) <= Len(t) /\ s = SubSeq(t, 1, Len(s))
Done(op) == \E k \in 1..Len(ops) : ops[k] = op
InTraining == fn \in {"train_epoch", "train"}
\* The loader is exhausted: the pass over the data has ended.
PassEnded == InTraining /\ nbpc = "next_batch" /\ Batches(remaining) = {}

\* C5: in train_epoch and in train the operations done on a batch are, in
\* this order and once each, zero_grad, forward, loss, backward, step, all of
\* them done before the next batch is taken; the gradient a step finds, and
\* applies, stems from the backward pass of the current batch alone.
C5_BatchOrder ==
    InTraining =>
        /\ IsPrefix(ops, BatchSteps)
        /\ (nbpc \in {"postfix", "accum"} \/ (nbpc = "next_batch" /\ batch # {}))
              => ops = BatchSteps
        /\ Done("backward") => grad.of = <<batch>>
        /\ Done("step") => lastApplied = <<batch>>

\* A later batch of a pass has gone through all five operations.
C5_Witness ==
    /\ InTraining
    /\ nbpc \in {"postfix", "accum"}
    /\ ops = BatchSteps
    /\ lastApplied = <<batch>>
    /\ \E i \in 1..dataset_len : fed[i] = 1 /\ i \notin batch

\* C6: with the train_loader of the notebook (batch_size 8, shuffle, drop_last)
\* a pass of train_epoch, or of an epoch of train, over the data has fed every
\* sample of train_data to the model exactly once when it ends.
C6_EverySampleOnce ==
    (PassEnded /\ train_loader = DataLoader(batch_size_nb))
        => \A i \in 1..dataset_len : fed[i] = 1

\* C7: what train_epoch returns to its caller is a float.
C7_ReturnsFloat ==
    ret.fn = "train_epoch" => ret.type = "float"

\* C8: in train_epoch and in train, model.train() has been called in this call
\* before a forward pass of this call is done.
C8_TrainModeFirst ==
    (InTraining /\ Done("forward")) => modeSet

\* C9: on a fresh model, after one backward pass, optimizer.step() of SGD with
\* lr = 0.001 leaves the weight at w_before - 0.001 * w_before_grad, the value
\* the manual update computed from the clones taken just before the step; the
\* cell then prints that both did the same thing.
C9_StepIsManualUpdate ==
    /\ nbpc = "sgd_compare" =>
          /\ weight = w_before - FlMul(manual_lr, w_before_grad)
          /\ weight = w_after
    /\ nbpc = "components" => nbout = <<"Both did the same thing!">>

\* The step has moved the weight and the comparison is next.
C9_Witness ==
    /\ nbpc = "sgd_compare"
    /\ weight # w_before
    /\ w_before_grad # 0

IsColabImportError(e) == e.at = "import_colab" /\ e.type = "ImportError"
IsFirstMagicFailure(e) == e.at = "magic"

C11_NoCallback ==
    viz.callbacks = <<>>

\* C11, amended: the one callback of the repository is ImageDataViz.update,
\* which viz.show() registers with widgets.interact.  After show has returned
\* it runs whenever the slider is moved, between two cells and never inside
\* one; it writes the image and the title of the figure, which then show the
\* sample the slider is on, and nothing else: no variable of a training cell
\* or of the script changes with it.
C11_OnlyVizCallback ==
    /\ [](viz.callbacks \in {<<>>, <<"update">>})
    /\ [][(viz.callbacks # <<>> /\ viz' # viz) =>
            /\ nbpc \in CellBoundaries
            /\ viz'.callbacks = viz.callbacks
            /\ viz'.img = <<viz'.index>>
            /\ viz'.title = <<viz'.index>>
            /\ UNCHANGED <<nbpc, setupVars, excVars, dataVars, modelVars, iterVars,
                           callVars, trainVars, cellVars, scriptVars>>]_vars

\* The callback has run after show returned: the figure shows another sample
\* than the one show put there, and the notebook has gone on.
C11_Witness ==
    /\ viz.callbacks = <<"update">>
    /\ viz.index # 0
    /\ viz.img = <<viz.index>>
    /\ nbpc = "train_cell"

\* The batches of one pass over the loader.
NumBatches ==
    IF train_loader.drop_last
    THEN dataset_len \div train_loader.batch_size
    ELSE (dataset_len + train_loader.batch_size - 1) \div train_loader.batch_size

\* The scheduler steps due after k epochs.
SchedulerStepsAfter(k) == IF lr_scheduler = "None" THEN 0 ELSE k

InEpochBody ==
    nbpc \in {"iter", "next_batch", "zero_grad", "forward", "loss", "backward", "step",
              "accum", "sched"}

\* C14: in train the scheduler, unless it is None, is stepped once per epoch,
\* after the last optimizer.step() of the epoch and before the first batch of
\* the next: ReduceLROnPlateau with the running_avg_train_loss of the epoch,
\* any other scheduler without argument, None not at all.  A call that returns
\* has made n_epochs scheduler steps (none for None) and n_epochs times the
\* number of batches optimizer steps.
C14_SchedulerOncePerEpoch ==
    /\ (fn = "train" /\ InEpochBody) =>
          schedSteps = SchedulerStepsAfter(epoch - 1)
    /\ (fn = "train" /\ nbpc \in {"sched", "epoch_postfix", "epoch_head"}) =>
          optSteps = epoch * NumBatches
    /\ (fn = "train" /\ nbpc \in {"epoch_postfix", "epoch_head"}) =>
          schedSteps = SchedulerStepsAfter(epoch)
    /\ (fn = "train" /\ nbpc = "epoch_postfix") =>
          schedArg = IF lr_scheduler = "ReduceLROnPlateau"
                     THEN <<running_avg_train_loss>>
                     ELSE <<>>
    /\ (nbpc = "end" /\ ret.fn = "train") =>
          /\ schedSteps = SchedulerStepsAfter(n_epochs)
          /\ optSteps = n_epochs * NumBatches

\* A call of train over several epochs of several batches has returned, its
\* scheduler stepped with the loss.
C14_Witness ==
    /\ nbpc = "end"
    /\ ret.fn = "train"
    /\ lr_scheduler = "ReduceLROnPlateau"
    /\ n_epochs > 1
    /\ schedSteps = n_epochs
    /\ schedArg # <<>>
    /\ optSteps > n_epochs

\* The samples the pass has processed: all but those the loader still holds.
Processed == dataset_len - Cardinality(remaining)

\* C15: when an epoch of train ends, running_avg_train_loss, until then the sum
\* over the batches of the epoch of loss * batch size, becomes that sum divided
\* by the number of samples the epoch processed.
C15_MeanOverProcessed ==
    [][(fn = "train" /\ nbpc = "next_batch" /\ nbpc' = "sched" /\ Processed > 0) =>
          running_avg_train_loss' = running_avg_train_loss \div Processed]_vars

-----------------------------------------------------------------------------
(* Further claims about test_2b.ipynb, checked under Spec.                  *)

\* C12: a call of calculate_fid writes no state: the six arrays never change,
\* so mu_real and sigma_real are the same for the second call as for the
\* first; the score of the second call is what calculate_fid gives on its
\* arguments alone, whatever call came before, and two calls with equal
\* arguments return equal scores.
C12_Stateless ==
    /\ [][arrays' = arrays]_vars
    /\ [](Fid2Assigned =>
            fid2 = calculate_fid(mu_real, sigma_real, mu2, sigma2).fid)
    /\ []((Fid2Assigned /\ mu1 = mu2 /\ sigma1 = sigma2) => fid2 = fid1)

\* Both calls were made on equal arguments, of a fake set that differs from
\* the real one.
C12_Witness ==
    /\ Fid2Assigned
    /\ mu1 = mu2 /\ sigma1 = sigma2
    /\ <<mu1, sigma1>> # <<mu_real, sigma_real>>
    /\ fid1 = fid2

\* The entries of a matrix in hundredths, the unit of the literals.
InHundredths(A) ==
    Mat([i \in 1..Rows(A) |-> [j \in 1..Cols(A) |-> A[i][j] \div Hundredth]],
        Rows(A), Cols(A))

\* The matrix without its first row and its column j.
Minor1(A, j) ==
    LET m == Rows(A) - 1
    IN  Mat([i \in 1..m |-> [k \in 1..m |-> A[i + 1][IF k < j THEN k ELSE k + 1]]],
            m, m)

RECURSIVE Det(_)
Det(A) ==
    IF Rows(A) = 1 THEN A[1][1]
    ELSE SumSeq(SeqOf([j \in 1..Rows(A) |->
                          (IF j % 2 = 1 THEN 1 ELSE -1) * A[1][j] * Det(Minor1(A, j))],
                      Rows(A)))

RECURSIVE SortedSeq(_)
SortedSeq(K) ==
    IF K = {} THEN <<>>
    ELSE LET top == CHOOSE k \in K : \A l \in K : l <= k
         IN  Append(SortedSeq(K \ {top}), top)

\* The rows and columns K of A.
Principal(A, K) ==
    LET I == SortedSeq(K)
    IN  Mat([i \in 1..Len(I) |-> [j \in 1..Len(I) |-> A[I[i]][I[j]]]], Len(I), Len(I))

IsSymmetric(A) ==
    /\ Rows(A) = Cols(A)
    /\ \A i, j \in 1..Rows(A) : A[i][j] = A[j][i]

\* A symmetric matrix is positive semi-definite iff every principal minor is
\* non-negative.
IsSymmetricPSD(A) ==
    /\ IsSymmetric(A)
    /\ \A K \in (SUBSET (1..Rows(A))) \ {{}} : Det(Principal(InHundredths(A), K)) >= 0

CovariancesPSD ==
    IsSymmetricPSD(sigma_real) /\ IsSymmetricPSD(sigma1) /\ IsSymmetricPSD(sigma2)

\* C13: the three hard-coded covariance matrices are symmetric positive
\* semi-definite, and no step of the script, a call of calculate_fid included,
\* changes one of them: it holds before and after each call, at every point
\* of the run.
C13_CovariancesPSD ==
    /\ [](IsLiteralInput => CovariancesPSD)
    /\ [][<<sigma_real, sigma1, sigma2>>' = <<sigma_real, sigma1, sigma2>>]_vars

\* The script has run on its literal arrays, and the matrices are as required.
C13_Witness ==
    /\ IsLiteralInput
    /\ pc = "done"
    /\ CovariancesPSD

VerdictLine(set) == "Based on FID score, Fake Image " \o set \o " is better"
VerdictLines == {k \in 1..Len(stdout) : stdout[k] \in {VerdictLine("Set I"), VerdictLine("Set II")}}

\* C16: the script prints one verdict line, as its last line: it names Set I
\* if fid1 < fid2 and Set II in every other case, equal scores included; no
\* verdict line is printed before.
C16_StrictVerdict ==
    /\ pc # "done" => VerdictLines = {}
    /\ pc = "done" =>
          /\ VerdictLines = {Len(stdout)}
          /\ fid1 < fid2 => stdout[Len(stdout)] = VerdictLine("Set I")
          /\ fid1 >= fid2 => stdout[Len(stdout)] = VerdictLine("Set II")

\* The two scores are equal, and not zero, and Set II is reported.
C16_Witness ==
    /\ pc = "done"
    /\ fid1 = fid2
    /\ fid1 > 0
    /\ stdout[Len(stdout)] = VerdictLine("Set II")

====
